---- MODULE Spec2Model ----
(***************************************************************************)
(* lazyjira: a terminal form (Summary, Description) driven by a bubbletea  *)
(* event loop, followed by one Jira Issue.Create call.                     *)
(*                                                                         *)
(* The model follows src/main.go: main() loads the configuration, builds   *)
(* the Model (NewModel), runs the program (tea.NewProgram(model).Run()),   *)
(* builds a Jira client and creates the issue.  Model.Update is the        *)
(* handler of every message of the event loop; the commands it returns run *)
(* asynchronously and come back as messages, in any order, interleaved     *)
(* with the messages of the input reader.                                  *)
(***************************************************************************)
EXTENDS Integers, Sequences, FiniteSets

\* ---------------------------------------------------------------- bounds
\* Number of input messages (keys, resizes) the terminal delivers in a run.
MaxEvents == 4

\* ------------------------------------------------------- program constants
maxWidth == 160

\* s.Base = Padding(1, 4, 0, 1): right padding 4 + left padding 1.
HorizontalFrameSize == 5

StateNormal == "StateNormal"
StateCompleted == "StateCompleted"
StateAborted == "StateAborted"

NoError == "nil"

\* The fields of the one group of the form, in order.
Fields == <<"Summary:", "Description:">>

NumFields == Len(Fields)

\* Keys of the input reader.  "a" and "b" stand for printable characters
\* other than "q".
CharKeys == {"a", "b", "q"}

CancelKeys == {"esc", "ctrl+c", "q"}

Keys == CharKeys \cup CancelKeys \cup {"enter", "shift+tab", "backspace"}

\* Widths a tea.WindowSizeMsg may carry.
Widths == {0, 100, 200}

\* Messages produced by commands (they travel through the program's
\* message channel like the input messages do).
InternalMsgs == {"nextFieldMsg", "prevFieldMsg", "nextGroupMsg", "QuitMsg"}

\* Config values a config.yaml may hold that matter to main():
\* create_issue.project, create_issue.custom_fields and whether jira_url
\* parses as a URL.
Configs == [Project : {"PRJ", "OPS"}, CustomFields : {"team=core"}, urlParses : BOOLEAN]

NoConfig == [Project |-> "", CustomFields |-> "", urlParses |-> FALSE]

NoArgs == [Project |-> "", CustomFields |-> "", Summary |-> <<>>, Description |-> <<>>, none |-> TRUE]

VARIABLES
    pc,           \* position of main(): "load", "run", "client", "create", "exit"
    exitCode,     \* process exit code once pc = "exit" (-1 before)
    c,            \* var c Config
    jiraClient,   \* "unset", "nil" or "client"
    width,        \* Model.width
    form,         \* Model.form: State, focused field, field errors, bound values
    pending,      \* messages of running commands, not yet received by the loop
    events,       \* number of input messages delivered so far
    last,         \* the message Model.Update handled last ("" before the first)
    cancelSeen,   \* Update has handled a cancellation key
    script,       \* progress of the operator through the happy path
    quitSignals,  \* number of tea.Quit commands Update has returned
    runError,     \* Run() returned a non-nil error
    createCalls,  \* number of jiraClient.Issue.Create calls
    createArgs,   \* the issue passed to the last Issue.Create call
    completedVals, \* field values when the form reached StateCompleted
    lastResize,   \* Width of the last tea.WindowSizeMsg handled (-1 before the first)
    view,         \* what View() returned for the current model (the rendered screen)
    recover,      \* progress of the operator through the advance-through-all-fields path
    loadError,    \* loading the configuration failed
    createResult  \* "none", or the outcome of the Issue.Create call: "ok", "err"

vars == <<pc, exitCode, c, jiraClient, width, form, pending, events, last,
          cancelSeen, script, quitSignals, runError, createCalls, createArgs, completedVals,
          lastResize, view, recover, loadError, createResult>>

\* var summary string, bound to the Input by Value(&summary).
summary == form.value[1]

\* var description string, bound to the Text by Value(&description).
description == form.value[2]

Min(a, b) == IF a < b THEN a ELSE b

\* ------------------------------------------------------------------ messages
KeyMsg(k) == [type |-> "KeyMsg", key |-> k, Width |-> 0]

WindowSizeMsg(w) == [type |-> "WindowSizeMsg", key |-> "", Width |-> w]

Internal(t) == [type |-> t, key |-> "", Width |-> 0]

\* The name under which a handled message is recorded.
MsgName(msg) == IF msg.type = "KeyMsg" THEN msg.key ELSE msg.type

Count(cmds, m) == Cardinality({i \in 1..Len(cmds) : cmds[i] = m})

\* The commands of a batch run concurrently; each delivers its message.
Spawn(bag, cmds) == [m \in InternalMsgs |-> bag[m] + Count(cmds, m)]

\* ---------------------------------------------------------------- the form
\* Neither field is given a Validate function, so huh's default applies:
\* every value is accepted.
Validate(i, value) == NoError

\* form.Errors(): the errors of the fields of the current group.
Errors(f) == {f.err[i] : i \in 1..NumFields} \ {NoError}

\* Update of the focused field (Input or Text) for a key message.
FieldUpdate(f, msg) ==
    LET i == f.page
        v == f.value[i]
    IN  IF msg.type # "KeyMsg" THEN [form |-> f, cmds |-> <<>>]
        ELSE IF msg.key = "enter" THEN
            LET e == Validate(i, v)
            IN  [form |-> [f EXCEPT !.err[i] = e],
                 cmds |-> IF e = NoError THEN <<"nextFieldMsg">> ELSE <<>>]
        ELSE IF msg.key = "shift+tab" THEN
            LET e == Validate(i, v)
            IN  [form |-> [f EXCEPT !.err[i] = e],
                 cmds |-> IF e = NoError THEN <<"prevFieldMsg">> ELSE <<>>]
        ELSE IF msg.key = "backspace" THEN
            [form |-> [f EXCEPT !.value[i] = IF v = <<>> THEN v ELSE SubSeq(v, 1, Len(v) - 1)],
             cmds |-> <<>>]
        ELSE IF msg.key \in CharKeys THEN
            [form |-> [f EXCEPT !.value[i] = Append(v, msg.key)], cmds |-> <<>>]
        ELSE [form |-> f, cmds |-> <<>>]

\* Group.Update: the focused field sees the message, then the group moves
\* the focus on nextFieldMsg / prevFieldMsg.
GroupUpdate(f, msg) ==
    LET r == FieldUpdate(f, msg)
        g == r.form
        blurred == [g EXCEPT !.err[g.page] = Validate(g.page, g.value[g.page])]
    IN  IF msg.type = "nextFieldMsg" THEN
            IF g.page = NumFields
            THEN [form |-> blurred, cmds |-> r.cmds \o <<"nextGroupMsg">>]
            ELSE [form |-> [blurred EXCEPT !.page = g.page + 1], cmds |-> r.cmds]
        ELSE IF msg.type = "prevFieldMsg" THEN
            IF g.page = 1
            THEN [form |-> blurred, cmds |-> r.cmds]
            ELSE [form |-> [blurred EXCEPT !.page = g.page - 1], cmds |-> r.cmds]
        ELSE r

\* A variant that completes the group without looking at its errors.
FormUpdateNoErrorCheck(f, msg) ==
    IF f.State # StateNormal THEN [form |-> f, cmds |-> <<>>]
    ELSE IF msg.type = "KeyMsg" /\ msg.key = "ctrl+c" THEN
        [form |-> [f EXCEPT !.State = StateAborted], cmds |-> <<>>]
    ELSE IF msg.type = "nextGroupMsg" THEN
        [form |-> [f EXCEPT !.State = StateCompleted], cmds |-> <<>>]
    ELSE GroupUpdate(f, msg)

\* huh.Form.Update, as called by m.form.Update(msg).
FormUpdate(f, msg) ==
    IF f.State # StateNormal THEN [form |-> f, cmds |-> <<>>]
    ELSE IF msg.type = "KeyMsg" /\ msg.key = "ctrl+c" THEN
        [form |-> [f EXCEPT !.State = StateAborted], cmds |-> <<>>]
    ELSE IF msg.type = "nextGroupMsg" THEN
        IF Errors(f) # {} THEN [form |-> f, cmds |-> <<>>]
        ELSE [form |-> [f EXCEPT !.State = StateCompleted], cmds |-> <<>>]
    ELSE GroupUpdate(f, msg)

\* -------------------------------------------------------------- the Model
\* NewModel(): width maxWidth, a form of one group with the two fields,
\* focus on the first, values bound to the (empty) package variables.
NewForm ==
    [State |-> StateNormal,
     page  |-> 1,
     err   |-> [i \in 1..NumFields |-> NoError],
     value |-> [i \in 1..NumFields |-> <<>>]]

\* A variant of the switch whose case list lacks "q".
IsCancelWithoutQ(msg) == msg.type = "KeyMsg" /\ msg.key \in {"esc", "ctrl+c"}

\* The switch at the head of Update: a cancellation key returns tea.Quit
\* before the form sees the message.
IsCancel(msg) == msg.type = "KeyMsg" /\ msg.key \in CancelKeys

\* A variant that forgets the clamp to maxWidth.
NewWidthNoClamp(w, msg) ==
    IF msg.type = "WindowSizeMsg"
    THEN msg.Width - HorizontalFrameSize
    ELSE w

\* A variant that forgets the frame of the base style.
NewWidthNoFrame(w, msg) ==
    IF msg.type = "WindowSizeMsg"
    THEN Min(msg.Width, maxWidth)
    ELSE w

\* case tea.WindowSizeMsg
NewWidth(w, msg) ==
    IF msg.type = "WindowSizeMsg"
    THEN Min(msg.Width, maxWidth) - HorizontalFrameSize
    ELSE w

\* A variant of the test below with the comparison inverted.
QuitCmdsInverted(f) == IF f.State # StateCompleted THEN <<"QuitMsg">> ELSE <<>>

\* if m.form.State == huh.StateCompleted { cmds = append(cmds, tea.Quit) }
QuitCmds(f) == IF f.State = StateCompleted THEN <<"QuitMsg">> ELSE <<>>

\* Model.Update(msg): returns the new model and the batch of commands.
ModelUpdate(w, f, msg) ==
    IF IsCancel(msg)
    THEN [width |-> w, form |-> f, cmds |-> <<"QuitMsg">>]
    ELSE LET r == FormUpdate(f, msg)
         IN  [width |-> NewWidth(w, msg),
              form  |-> r.form,
              cmds  |-> r.cmds \o QuitCmds(r.form)]

\* ---------------------------------------------------------------- View()
\* m.errorView(): the messages of form.Errors(), concatenated in field order.
ErrorView(f) ==
    LET F[i \in 0..NumFields] ==
            IF i = 0 THEN <<>>
            ELSE IF f.err[i] = NoError THEN F[i - 1] ELSE Append(F[i - 1], f.err[i])
    IN  F[NumFields]

\* m.appBoundaryView(text): text in the header style, placed in m.width.
AppBoundaryView(w, text) == [style |-> "HeaderText", width |-> w, text |-> text]

\* m.appErrorBoundaryView(text): the same in the error header style.
AppErrorBoundaryView(w, text) == [style |-> "ErrorHeaderText", width |-> w, text |-> text]

\* header := ...; if len(errors) > 0 { header = ... }
Header(w, f) ==
    IF Cardinality(Errors(f)) > 0
    THEN AppErrorBoundaryView(w, ErrorView(f))
    ELSE AppBoundaryView(w, <<"Create a JIRA Ticket">>)

\* A variant of the footer whose test is off by one.
FooterOffByOne(w, f) ==
    IF Cardinality(Errors(f)) > 1
    THEN AppErrorBoundaryView(w, <<>>)
    ELSE AppBoundaryView(w, <<"ShortHelpView">>)

\* footer := ...; if len(errors) > 0 { footer = m.appErrorBoundaryView("") }
Footer(w, f) ==
    IF Cardinality(Errors(f)) > 0
    THEN AppErrorBoundaryView(w, <<>>)
    ELSE AppBoundaryView(w, <<"ShortHelpView">>)

\* m.form.View(): the fields of the group and the focus, nothing once the
\* form is no longer in StateNormal.
FormView(f) == IF f.State = StateNormal THEN <<f.page, f.value>> ELSE <<>>

\* Model.View(): header, form and footer in the base style.
View(w, f) == [header |-> Header(w, f), body |-> FormView(f), footer |-> Footer(w, f)]

\* -------------------------------------------- advancing through every field
\* From a form with the focus on field p: go back to the first field when
\* p is the second, then advance through both fields; each command's
\* message is handled before the next key.
RecoverySeq(p) ==
    (IF p = 1 THEN <<>> ELSE <<"shift+tab", "prevFieldMsg">>)
    \o <<"enter", "nextFieldMsg", "enter", "nextFieldMsg", "nextGroupMsg">>

\* One more message on that path, or off it (pos = -1).
RecoverStep(r, msg) ==
    IF r.pos >= 0 /\ r.pos < Len(r.seq) /\ r.seq[r.pos + 1] = MsgName(msg)
    THEN [r EXCEPT !.pos = @ + 1]
    ELSE [r EXCEPT !.pos = -1]

\* ------------------------------------------------- the operator's happy path
\* The operator types a non-empty title t, advances, types a non-empty body
\* b and advances; each advance is handled to its end (nextFieldMsg,
\* nextGroupMsg) before the next key.  Any other message leaves the path.
ScriptStep(s, msg) ==
    LET n == MsgName(msg)
        off == [s EXCEPT !.phase = "off"]
    IN  CASE s.phase = "title" ->
               IF n \in CharKeys THEN [s EXCEPT !.t = Append(@, n)]
               ELSE IF n = "enter" /\ s.t # <<>> THEN [s EXCEPT !.phase = "adv1"]
               ELSE off
          [] s.phase = "adv1" ->
               IF n = "nextFieldMsg" THEN [s EXCEPT !.phase = "body"] ELSE off
          [] s.phase = "body" ->
               IF n \in CharKeys THEN [s EXCEPT !.b = Append(@, n)]
               ELSE IF n = "enter" /\ s.b # <<>> THEN [s EXCEPT !.phase = "adv2"]
               ELSE off
          [] s.phase = "adv2" ->
               IF n = "nextFieldMsg" THEN [s EXCEPT !.phase = "adv3"] ELSE off
          [] s.phase = "adv3" ->
               IF n = "nextGroupMsg" THEN [s EXCEPT !.phase = "end"] ELSE off
          [] OTHER -> off

\* ---------------------------------------------------------- the event loop
\* One iteration of the event loop for a message other than QuitMsg:
\* model, cmd = model.Update(msg), then the commands are started.
Handle(msg, bag) ==
    LET r == ModelUpdate(width, form, msg)
    IN  /\ width' = r.width
        /\ form' = r.form
        /\ pending' = Spawn(bag, r.cmds)
        /\ last' = MsgName(msg)
        /\ cancelSeen' = (cancelSeen \/ MsgName(msg) \in CancelKeys)
        /\ script' = ScriptStep(script, msg)
        /\ lastResize' = IF msg.type = "WindowSizeMsg" THEN msg.Width ELSE lastResize
        /\ view' = View(r.width, r.form)
        /\ recover' = RecoverStep(recover, msg)
        /\ quitSignals' = quitSignals + Count(r.cmds, "QuitMsg")
        /\ completedVals' = IF form.State # StateCompleted /\ r.form.State = StateCompleted
                            THEN r.form.value
                            ELSE completedVals

\* The input reader delivers a key press.
DeliverKey ==
    /\ pc = "run"
    /\ events < MaxEvents
    /\ \E k \in Keys : Handle(KeyMsg(k), pending)
    /\ events' = events + 1
    /\ UNCHANGED <<pc, exitCode, c, jiraClient, runError, createCalls, createArgs,
                   loadError, createResult>>

\* The terminal reports a new size.
DeliverResize ==
    /\ pc = "run"
    /\ events < MaxEvents
    /\ \E w \in Widths : Handle(WindowSizeMsg(w), pending)
    /\ events' = events + 1
    /\ UNCHANGED <<pc, exitCode, c, jiraClient, runError, createCalls, createArgs,
                   loadError, createResult>>

\* The message of a finished command reaches Update.
DeliverInternal ==
    /\ pc = "run"
    /\ \E t \in InternalMsgs \ {"QuitMsg"} :
          /\ pending[t] > 0
          /\ Handle(Internal(t), [pending EXCEPT ![t] = @ - 1])
    /\ UNCHANGED <<pc, exitCode, c, jiraClient, events, runError, createCalls, createArgs,
                   loadError, createResult>>

\* The loop receives the QuitMsg of a tea.Quit command: Run() returns nil.
QuitLoop ==
    /\ pc = "run"
    /\ pending["QuitMsg"] > 0
    /\ pc' = "client"
    /\ UNCHANGED <<exitCode, c, jiraClient, width, form, pending, events, last,
                   cancelSeen, script, lastResize, view, recover, quitSignals, runError, createCalls, createArgs, completedVals,
                   loadError, createResult>>

\* Run() returns an error (the terminal cannot be set up or read):
\* fmt.Println("Oh no:", err2); os.Exit(1).
RunFails ==
    /\ pc = "run"
    /\ runError' = TRUE
    /\ pc' = "exit"
    /\ exitCode' = 1
    /\ UNCHANGED <<c, jiraClient, width, form, pending, events, last,
                   cancelSeen, script, lastResize, view, recover, quitSignals, createCalls, createArgs, completedVals,
                   loadError, createResult>>

\* ------------------------------------------------------------------ main()
\* A variant in which a failed load is reported but main() carries on.
AfterLoadErrorContinue == "run"

\* What follows a failed os.UserHomeDir, os.ReadFile or yaml.Unmarshal:
\* fmt.Println("Oh no:", err); os.Exit(1).
AfterLoadError == "exit"

\* os.UserHomeDir, os.ReadFile and yaml.Unmarshal: any failure exits 1.
LoadConfig ==
    /\ pc = "load"
    /\ \E outcome \in {"UserHomeDir", "ReadFile", "Unmarshal", "ok"} :
          IF outcome = "ok"
          THEN /\ \E cfg \in Configs : c' = cfg
               /\ pc' = "run"
               /\ UNCHANGED <<exitCode, loadError>>
          ELSE /\ pc' = AfterLoadError
               /\ exitCode' = IF AfterLoadError = "exit" THEN 1 ELSE exitCode
               /\ loadError' = TRUE
               /\ UNCHANGED c
    /\ UNCHANGED <<jiraClient, width, form, pending, events, last,
                   cancelSeen, script, lastResize, view, recover, quitSignals, runError, createCalls, createArgs, completedVals,
                   createResult>>

\* jiraClient, _ := jira.NewClient(tp.Client(), c.JiraUrl): the error is
\* dropped, and the client is nil when the URL does not parse.
NewClient ==
    /\ pc = "client"
    /\ jiraClient' = IF c.urlParses THEN "client" ELSE "nil"
    /\ pc' = "create"
    /\ UNCHANGED <<exitCode, c, width, form, pending, events, last,
                   cancelSeen, script, lastResize, view, recover, quitSignals, runError, createCalls, createArgs, completedVals,
                   loadError, createResult>>

\* The issue main() builds from the config and the package variables.
Issue ==
    [Project |-> c.Project, CustomFields |-> c.CustomFields,
     Summary |-> summary, Description |-> description, none |-> FALSE]

\* A variant that tries the call again after an error.
AfterCreateErrorRetry == "create"

\* What follows a returned error of Issue.Create: panic(err).
AfterCreateError == "exit"

\* A variant that drops the error of Issue.Create as line 215 drops that of
\* NewClient.
ErrIsNilAlways(ok) == ok \/ ~ok

\* if err != nil { panic(err) }: the test of the returned error.
ErrIsNil(ok) == ok

\* issue, _, err := jiraClient.Issue.Create(&i); panic on error (exit
\* status 2), else print the key and return (exit status 0).  A nil client
\* panics on jiraClient.Issue before any call is made.
CreateIssue ==
    /\ pc = "create"
    /\ IF jiraClient = "nil"
       THEN /\ pc' = "exit"
            /\ exitCode' = 2
            /\ UNCHANGED <<createCalls, createArgs, createResult>>
       ELSE /\ createCalls' = createCalls + 1
            /\ createArgs' = Issue
            /\ \E ok \in BOOLEAN :
                  /\ createResult' = IF ok THEN "ok" ELSE "err"
                  /\ IF ErrIsNil(ok)
                     THEN pc' = "exit" /\ exitCode' = 0
                     ELSE /\ pc' = AfterCreateError
                          /\ exitCode' = IF AfterCreateError = "exit" THEN 2 ELSE exitCode
    /\ UNCHANGED <<c, jiraClient, width, form, pending, events, last,
                   cancelSeen, script, lastResize, view, recover, quitSignals, runError, completedVals, loadError>>

Init ==
    /\ pc = "load"
    /\ exitCode = -1
    /\ c = NoConfig
    /\ jiraClient = "unset"
    /\ width = maxWidth
    /\ form = NewForm
    /\ pending = [m \in InternalMsgs |-> 0]
    /\ events = 0
    /\ last = ""
    /\ cancelSeen = FALSE
    /\ script = [phase |-> "title", t |-> <<>>, b |-> <<>>]
    /\ quitSignals = 0
    /\ runError = FALSE
    /\ createCalls = 0
    /\ createArgs = NoArgs
    /\ completedVals = <<>>
    /\ lastResize = -1
    /\ view = View(maxWidth, NewForm)
    /\ recover = [seq |-> RecoverySeq(1), pos |-> 0, hadErr |-> FALSE]
    /\ loadError = FALSE
    /\ createResult = "none"

Next ==
    \/ LoadConfig
    \/ DeliverKey
    \/ DeliverResize
    \/ DeliverInternal
    \/ QuitLoop
    \/ RunFails
    \/ NewClient
    \/ CreateIssue

Spec == Init /\ [][Next]_vars

\* ------------------------------------------- Update and View on any form
\* Update and View are functions of the Model they are called on.  The
\* forms below are the active forms of the two fields with any focus and
\* any combination of field errors, as a form whose fields carry validators
\* can hold them.
FormInputs ==
    [State : {StateNormal},
     page  : 1..NumFields,
     err   : [1..NumFields -> {NoError, "required"}],
     value : {[i \in 1..NumFields |-> <<>>]}]

\* The event loop started on one of these forms, the configuration loaded.
InitForm ==
    /\ pc = "run"
    /\ exitCode = -1
    /\ c = [Project |-> "PRJ", CustomFields |-> "team=core", urlParses |-> TRUE]
    /\ jiraClient = "unset"
    /\ width = maxWidth
    /\ form \in FormInputs
    /\ pending = [m \in InternalMsgs |-> 0]
    /\ events = 0
    /\ last = ""
    /\ cancelSeen = FALSE
    /\ script = [phase |-> "off", t |-> <<>>, b |-> <<>>]
    /\ quitSignals = 0
    /\ runError = FALSE
    /\ createCalls = 0
    /\ createArgs = NoArgs
    /\ completedVals = <<>>
    /\ lastResize = -1
    /\ view = View(width, form)
    /\ recover = [seq |-> RecoverySeq(form.page), pos |-> 0, hadErr |-> Errors(form) # {}]
    /\ loadError = FALSE
    /\ createResult = "none"

NextForm ==
    \/ DeliverKey
    \/ DeliverResize
    \/ DeliverInternal
    \/ QuitLoop
    \/ RunFails
    \/ NewClient
    \/ CreateIssue

SpecForm == InitForm /\ [][NextForm]_vars

\* ------------------------------------------------------------ type invariant
TypeOK ==
    /\ pc \in {"load", "run", "client", "create", "exit"}
    /\ exitCode \in {-1, 0, 1, 2}
    /\ form.State \in {StateNormal, StateCompleted, StateAborted}
    /\ form.page \in 1..NumFields
    /\ events \in 0..MaxEvents
    /\ createCalls \in Nat

\* ------------------------------------------------------------------ claims
\* The terminal flag of the engine, read off the program: completed is the
\* form's StateCompleted, cancelled is a cancellation key handled by Update.
Completed == form.State = StateCompleted

Cancelled == cancelSeen

\* A step in which Update handles a message of the input reader.
InputStep == pc = "run" /\ events' = events + 1

\* A step in which Update handles the message of a command.
InternalStep(t) == pc = "run" /\ pending[t] > 0 /\ last' = t /\ events' = events /\ pc' = "run"

\* C1: Issue.Create is called only if the form loop ended with the form
\* completed; after a loop ended by a cancellation key it is never called.
C1_SubmitOnlyIfCompleted ==
    createCalls > 0 => (Completed /\ ~Cancelled)

\* C2: Update signals the end of the loop, and the form leaves StateNormal,
\* only on a cancellation key or on a completion in which no field carries
\* an error; the form completes only on the advance past the last field
\* (nextGroupMsg) with every field valid.
C2_LeavesActiveOnlyValidOrCancel ==
    [][ /\ (quitSignals' > quitSignals =>
              \/ (InputStep /\ last' \in CancelKeys)
              \/ (form'.State = StateCompleted /\ Errors(form') = {}))
        /\ (form.State = StateNormal /\ form'.State # StateNormal =>
              /\ form'.State = StateCompleted
              /\ last' = "nextGroupMsg"
              /\ Errors(form) = {}
              /\ \A i \in 1..NumFields : Validate(i, form'.value[i]) = NoError) ]_vars

\* C2 witness: the form has completed and the one quit signal of the run
\* came from that completion.
C2_Witness ==
    Completed /\ ~Cancelled /\ quitSignals = 1 /\ summary # <<>> /\ description # <<>>

\* C3: once Update has handled a cancellation key, no later message changes
\* summary or description, and the next step of the loop is its exit.
C3_CancelAbsorbing ==
    [][ Cancelled =>
          /\ summary' = summary
          /\ description' = description
          /\ form' = form
          /\ (pc = "run" => pc' # "run") ]_vars

\* C4: an advance applied while the focus is on an empty Summary leaves the
\* form in StateNormal with an error on Summary and the focus on Summary.
C4_EmptyTitleBlocked ==
    [][ ( /\ form.State = StateNormal
          /\ form.page = 1
          /\ summary = <<>>
          /\ \/ (InputStep /\ last' = "enter")
             \/ InternalStep("nextFieldMsg") ) =>
        ( /\ form'.State = StateNormal
          /\ form'.page = 1
          /\ form'.err[1] # NoError ) ]_vars

\* C5: while the form is in StateNormal, a cancellation key makes Update
\* return tea.Quit at once, whatever the focus and the buffers are, and the
\* key is not applied to the form.
C5_CancelImmediate ==
    [][ (InputStep /\ form.State = StateNormal /\ last' \in CancelKeys) =>
        ( /\ form' = form
          /\ width' = width
          /\ quitSignals' = quitSignals + 1
          /\ pending' = [pending EXCEPT !["QuitMsg"] = @ + 1]
          /\ Cancelled' ) ]_vars

\* C5 witness: a cancellation key was handled last, with the focus on the
\* second field and text in the first.
C5_Witness ==
    /\ Cancelled
    /\ last \in CancelKeys
    /\ form.State = StateNormal
    /\ form.page = 2
    /\ summary # <<>>
    /\ quitSignals = 1

\* C6: Issue.Create is called at most once in a run, only after the loop
\* has exited without error, and a failed call ends the process.
C6_AtMostOneSubmission ==
    /\ createCalls \in {0, 1}
    /\ (createCalls = 1 => pc = "exit" /\ exitCode \in {0, 2} /\ ~runError /\ quitSignals > 0)
    /\ (pc \in {"load", "run", "client", "create"} => createCalls = 0)

\* C6 witness: the one call was made and failed.
C6_Witness ==
    createCalls = 1 /\ pc = "exit" /\ exitCode = 2

\* C7: when the form has completed and the loop has exited, Issue.Create
\* has been called exactly once by the end of main, with the loaded
\* settings and the values the form held at completion.
C7_CompletedIsSubmittedOnce ==
    (pc = "exit" /\ Completed /\ ~runError) =>
        /\ createCalls = 1
        /\ createArgs = [Project |-> c.Project, CustomFields |-> c.CustomFields,
                         Summary |-> completedVals[1], Description |-> completedVals[2],
                         none |-> FALSE]

\* C8: the happy path (type a non-empty title t, advance, type a non-empty
\* body b, advance) is never cut short by the end of the loop and ends with
\* the form completed holding exactly (t, b).
C8_HappyPath ==
    /\ (script.phase \in {"title", "adv1", "body", "adv2", "adv3"} /\ script.t # <<>> /\ ~runError => pc = "run")
    /\ (script.phase = "end" => Completed /\ summary = script.t /\ description = script.b)

\* C9: the terminal flag only goes active -> completed or active ->
\* cancelled: a completed or cancelled engine stays as it is and never
\* becomes the other.
C9_TerminalOneWay ==
    [][ /\ (Completed => Completed' /\ ~Cancelled')
        /\ (Cancelled => Cancelled' /\ ~Completed') ]_vars

\* C10: Update returns tea.Quit at most once in a run, and after it has,
\* no further message is handled.
C10_OneTerminationSignal ==
    [][ /\ quitSignals' <= 1
        /\ (quitSignals >= 1 => UNCHANGED <<form, width, pending, events, last, quitSignals>>) ]_vars

\* C11 (as stated): after a resize to a width above maxWidth the stored
\* width equals maxWidth.
C11_ClampedToMax ==
    lastResize > maxWidth => width = maxWidth

\* C11 (amended): after a resize to a width above maxWidth the stored width
\* is maxWidth less the horizontal frame of the base style (155), which is
\* below the maximum.
C11_ClampedToMaxLessFrame ==
    lastResize > maxWidth => (width = maxWidth - HorizontalFrameSize /\ width <= maxWidth)

\* C11 witness: a resize to 200 columns has been handled.
C11_Witness ==
    lastResize = 200 /\ width = 155

\* C12: a resize handled while the form is in StateNormal changes no field
\* value, focus, error or state, starts no command and returns no tea.Quit.
C12_ResizeFrame ==
    [][ (InputStep /\ last' = "WindowSizeMsg" /\ form.State = StateNormal) =>
        ( /\ form' = form
          /\ pending' = pending
          /\ quitSignals' = quitSignals
          /\ cancelSeen' = cancelSeen
          /\ pc' = "run" ) ]_vars

\* C12 witness: a resize was handled last, in the middle of the entry.
C12_Witness ==
    /\ last = "WindowSizeMsg"
    /\ form.State = StateNormal
    /\ form.page = 2
    /\ summary # <<>>
    /\ quitSignals = 0
    /\ pc = "run"

\* C13: a run whose loop was ended by a cancellation key never exits 0.
C13_CancelExitsNonZero ==
    (pc = "exit" /\ Cancelled /\ ~Completed) => exitCode # 0

\* C14: exit code 0 only after an Issue.Create call that succeeded; a failed
\* configuration load, an error of Run() (no call is made then) and an
\* error of the call all give a non-zero code.
C14_ExitCodes ==
    /\ (exitCode = 0 => pc = "exit" /\ createCalls = 1 /\ createResult = "ok")
    /\ (pc = "exit" /\ loadError => exitCode # 0)
    /\ (pc = "exit" /\ runError => exitCode # 0 /\ createCalls = 0)
    /\ (pc = "exit" /\ createResult = "err" => exitCode # 0)

\* C14 witness: the call was made, succeeded, and the process exited 0.
C14_Witness ==
    pc = "exit" /\ exitCode = 0 /\ createResult = "ok" /\ createCalls = 1

\* C15: the configuration is loaded before the form engine starts; when
\* loading fails the process exits with no message handled, nothing
\* rendered anew and no Issue.Create call.
C15_LoadBeforeForm ==
    /\ (pc = "load" => events = 0 /\ last = "" /\ createCalls = 0)
    /\ (loadError => /\ pc = "exit"
                     /\ events = 0
                     /\ last = ""
                     /\ form = NewForm
                     /\ createCalls = 0
                     /\ jiraClient = "unset")
    /\ (last # "" => c \in Configs)

\* C15 witness: loading failed and the process has exited.
C15_Witness ==
    loadError /\ pc = "exit" /\ exitCode = 1 /\ events = 0

\* C16: while the form is in StateNormal, the rendered header is in the
\* error style and the footer is the blank error boundary exactly when some
\* field carries an error; otherwise the header is the normal title and the
\* footer the key help.  Header and footer change together.
C16_HeaderFooterFollowErrors ==
    form.State = StateNormal =>
        /\ (view.header.style = "ErrorHeaderText") <=> (Errors(form) # {})
        /\ (view.footer = AppErrorBoundaryView(width, <<>>)) <=> (Errors(form) # {})
        /\ (view.header.style = "ErrorHeaderText") <=> (view.footer.style = "ErrorHeaderText")
        /\ (Errors(form) # {} => view.header.text = ErrorView(form))
        /\ (Errors(form) = {} =>
              /\ view.header = AppBoundaryView(width, <<"Create a JIRA Ticket">>)
              /\ view.footer = AppBoundaryView(width, <<"ShortHelpView">>))

\* C16 witness: a screen rendered after a message, with exactly one field
\* in error: error header, blank footer.
C16_Witness ==
    /\ form.State = StateNormal
    /\ events > 0
    /\ Cardinality({i \in 1..NumFields : form.err[i] # NoError}) = 1
    /\ view.header.style = "ErrorHeaderText"
    /\ view.footer.text = <<>>

Typed == {summary[i] : i \in 1..Len(summary)} \cup {description[i] : i \in 1..Len(description)}

C20_WidthRange ==
    /\ width >= 0
    /\ width <= maxWidth
    /\ (lastResize = -1 => width = maxWidth)
    /\ (lastResize >= 0 => width = Min(lastResize, maxWidth) - HorizontalFrameSize)

\* C20 (amended): the stored width is always between minus the frame and
\* maxWidth, and non-negative when the last resize was to at least the
\* frame's width; the rest as stated.
C20_WidthRangeFromMinusFrame ==
    /\ width >= 0 - HorizontalFrameSize
    /\ width <= maxWidth
    /\ (lastResize >= HorizontalFrameSize => width >= 0)
    /\ (lastResize = -1 => width = maxWidth)
    /\ (lastResize >= 0 => width = Min(lastResize, maxWidth) - HorizontalFrameSize)

\* C20 witness: a resize to a window narrower than the frame.
C20_Witness ==
    lastResize = 0 /\ width = 0 - HorizontalFrameSize

====
